---- MODULE Spec2Model ----
(***************************************************************************)
(* Model of job-pod-reaper (main.go): the reaping loop of main, run,       *)
(* getNamespaces, getJobs, getJobObjects and reap, against a cluster       *)
(* object store with label-selector listing and delete-by-name.            *)
(*                                                                         *)
(* Strings that the program splits, concatenates or parses are sequences   *)
(* of lexemes (<<"a", ",", "b">> is "a,b"); the empty string is <<>>.      *)
(* Time is counted in units of 30 minutes.                                 *)
(***************************************************************************)
EXTENDS Integers, Sequences, FiniteSets, TLC

\* ------------------------------------------------------------------ bounds
MaxTime == 2
MaxPods == 2
MaxRuns == 2
MaxFaults == 1

\* --------------------------------------------------------------- constants
lifetimeAnnotation == <<"pod.kubernetes.io/lifetime">>
NamespaceAll == <<>>
reapInterval == 1

\* ----------------------------------------------------------------- helpers
Range(s) == {s[i] : i \in 1..Len(s)}

NoLabels == [k \in {} |-> <<>>]

Label(k, v) == [x \in {<<k>>} |-> <<v>>]

RECURSIVE IndexOf(_, _, _)
\* first position >= i of lexeme c in s, 0 when there is none
IndexOf(s, c, i) ==
    IF i > Len(s) THEN 0
    ELSE IF s[i] = c THEN i
    ELSE IndexOf(s, c, i + 1)

RECURSIVE Split(_, _)
\* strings.Split(s, sep): always at least one token, "" gives <<"">>
Split(s, sep) ==
    LET i == IndexOf(s, sep, 1) IN
    IF i = 0 THEN <<s>>
    ELSE <<SubSeq(s, 1, i - 1)>> \o Split(SubSeq(s, i + 1, Len(s)), sep)

ToLowerLexeme(c) ==
    IF c \in {"ALL", "All"} THEN "all" ELSE c

\* strings.ToLower
ToLower(s) == [i \in 1..Len(s) |-> ToLowerLexeme(s[i])]

\* fmt.Sprintf("%s=%s", a, b)
SprintfEq(a, b) == a \o <<"=">> \o b

\* time.ParseDuration on the lexemes [sign] number unit; the result is in
\* units of 30 minutes.  Anything else is an error.
NumberValue(c) ==
    CASE c = "30" -> 30
      [] c = "60" -> 60
      [] c = "1"  -> 1
      [] c = "2"  -> 2
      [] OTHER    -> -1

UnitMinutes(c) ==
    CASE c = "m" -> 1
      [] c = "h" -> 60
      [] OTHER   -> 0

ParseDuration(s) ==
    LET neg  == Len(s) > 0 /\ s[1] = "-"
        body == IF neg THEN SubSeq(s, 2, Len(s)) ELSE s
        ok   == /\ Len(body) = 2
                /\ NumberValue(body[1]) >= 0
                /\ UnitMinutes(body[2]) > 0
                /\ (NumberValue(body[1]) * UnitMinutes(body[2])) % 30 = 0
        mins == IF ok THEN NumberValue(body[1]) * UnitMinutes(body[2]) ELSE 0
    IN [ok |-> ok, d |-> IF neg THEN 0 - (mins \div 30) ELSE mins \div 30]

\* ------------------------------------------------- the cluster object store
\* Label selector evaluation of the API server: "" selects everything,
\* "k=v" equality, "k" existence; an empty key is rejected.
SelectorValid(sel) ==
    LET i == IndexOf(sel, "=", 1) IN i # 1

SelectorMatches(sel, labels) ==
    LET i == IndexOf(sel, "=", 1) IN
    IF sel = <<>> THEN TRUE
    ELSE IF i = 0 THEN sel \in DOMAIN labels
    ELSE LET k == SubSeq(sel, 1, i - 1)
             v == SubSeq(sel, i + 1, Len(sel))
         IN k \in DOMAIN labels /\ labels[k] = v

InNamespace(ns, o) == ns = NamespaceAll \/ o.namespace = ns

\* List of a kind in a namespace with a label selector: the stored objects
\* that match, in store order.
ListItems(store, ns, sel) ==
    SelectSeq(store, LAMBDA o : InNamespace(ns, o) /\ SelectorMatches(sel, o.labels))

ListNamespaceItems(store, sel) ==
    SelectSeq(store, LAMBDA o : SelectorMatches(sel, o.labels))

Exists(store, ns, name) ==
    \E i \in 1..Len(store) : store[i].namespace = ns /\ store[i].name = name

\* Delete by namespace and name
Remove(store, ns, name) ==
    SelectSeq(store, LAMBDA o : ~(o.namespace = ns /\ o.name = name))

\* ------------------------------------------------------- the input universe
NsA == <<"a">>
NsB == <<"b">>

NamespaceUniverse ==
    << [name |-> NsA, labels |-> Label("team", "t")],
       [name |-> NsB, labels |-> Label("team", "u")] >>

Ann(v) == [x \in {lifetimeAnnotation} |-> v]

PodUniverse ==
    << [name |-> "p1", namespace |-> NsA, creationTimestamp |-> 0,
        labels |-> Label("app", "x") @@ Label("job", "1"),
        annotations |-> Ann(<<"30", "m">>)],
       [name |-> "p2", namespace |-> NsA, creationTimestamp |-> 0,
        labels |-> Label("app", "y") @@ Label("job", "2"),
        annotations |-> Ann(<<"1", "h">>)],
       [name |-> "p3", namespace |-> NsA, creationTimestamp |-> 0,
        labels |-> Label("app", "x") @@ Label("job", "1"),
        annotations |-> NoLabels],
       [name |-> "p4", namespace |-> NsA, creationTimestamp |-> 0,
        labels |-> Label("app", "x") @@ Label("job", "2"),
        annotations |-> Ann(<<"bad">>)],
       [name |-> "p5", namespace |-> NsA, creationTimestamp |-> 0,
        labels |-> Label("app", "x"),
        annotations |-> Ann(<<"30", "m">>)],
       [name |-> "p6", namespace |-> NsB, creationTimestamp |-> 0,
        labels |-> Label("app", "x") @@ Label("job", "1"),
        annotations |-> Ann(<<"30", "m">>)] >>

ObjectUniverse ==
    << [kind |-> "service",   name |-> "s1", namespace |-> NsA, labels |-> Label("job", "1")],
       [kind |-> "service",   name |-> "s2", namespace |-> NsB, labels |-> Label("job", "2")],
       [kind |-> "configmap", name |-> "c1", namespace |-> NsA, labels |-> Label("job", "2")],
       [kind |-> "configmap", name |-> "c2", namespace |-> NsA, labels |-> NoLabels],
       [kind |-> "secret",    name |-> "k1", namespace |-> NsA, labels |-> Label("app", "x")],
       [kind |-> "secret",    name |-> "k2", namespace |-> NsB, labels |-> Label("job", "1")] >>

SubSeqBy(s, S) == SelectSeq(s, LAMBDA o : o \in S)


\* -------------------------------------------------------------------- state
VARIABLES
    cfg,                \* the flags: runOnce, reapMax, reapNamespaces, namespaceLabels, podsLabels, jobLabel
    nsStore, pods, objs,\* the cluster: namespaces, pods, services/config-maps/secrets
    now,                \* the clock
    pc,                 \* position of the main goroutine
    start, durationArg, \* run: start time, argument of the deferred metricDuration.Set
    err,                \* run: the error it returns ("nil" for none)
    namespaces, nsLabelIdx,
    nsIdx, lIdx, podItems, podIdx, jobs, toReap,
    jobObjects, jobIdx, stage,
    reapIdx, errCount, deleted,
    metricError, metricErrorsTotal, metricReapedTotal, metricDuration,
    runs, exitCode,
    \* history of the current run
    nsListCalls, podListCalls, evaluated, lookupCalls, deleteCalls, pods0, objs0

cluster  == <<nsStore, pods, objs>>
nsVars   == <<namespaces, nsLabelIdx>>
jobVars  == <<nsIdx, lIdx, podItems, podIdx, jobs, toReap>>
objVars  == <<jobObjects, jobIdx, stage>>
reapVars == <<reapIdx, errCount, deleted>>
metrics  == <<metricError, metricErrorsTotal, metricReapedTotal, metricDuration>>
mainVars == <<runs, exitCode>>
history  == <<nsListCalls, podListCalls, evaluated, lookupCalls, deleteCalls, pods0, objs0>>

vars == <<cfg, cluster, now, pc, start, durationArg, err, nsVars, jobVars,
          objVars, reapVars, metrics, mainVars, history>>

Kinds == {"pod", "service", "configmap", "secret"}

ZeroCounts == [k \in Kinds |-> 0]

\* ---------------------------------------------------------------- the inputs
ReapNamespacesSet == { <<"all">>, <<"a", ",", "b">> }

NamespaceLabelsSet == { <<>>, <<"team", "=", "t">> }

PodsLabelsSet == { <<>>, <<"app", "=", "x", ",", "app", "=", "y">> }

ReapMaxSet == {0, 1}

\* Every cap and pod selector list under the default namespaces, and every
\* namespace configuration under the default cap-free, selector-free flags.
ConfigSet ==
    { c \in [runOnce : BOOLEAN, reapMax : ReapMaxSet, reapNamespaces : ReapNamespacesSet,
             namespaceLabels : NamespaceLabelsSet, podsLabels : PodsLabelsSet,
             jobLabel : {<<"job">>}] :
        \/ c.reapNamespaces = <<"all">> /\ c.namespaceLabels = <<>>
        \/ c.reapMax = 0 /\ c.podsLabels = <<>> }

PodSets == {S \in SUBSET Range(PodUniverse) : Cardinality(S) <= MaxPods}

\* the process before the first run: no run-local value, every metric at zero
InitProcess ==
    /\ pc = "run"
    /\ start = 0 /\ durationArg = 0 /\ err = "nil"
    /\ namespaces = <<>> /\ nsLabelIdx = 1
    /\ nsIdx = 1 /\ lIdx = 1 /\ podItems = <<>> /\ podIdx = 1
    /\ jobs = <<>> /\ toReap = 0
    /\ jobObjects = <<>> /\ jobIdx = 1 /\ stage = "service"
    /\ reapIdx = 1 /\ errCount = 0 /\ deleted = ZeroCounts
    /\ metricError = 0 /\ metricErrorsTotal = 0
    /\ metricReapedTotal = ZeroCounts /\ metricDuration = 0
    /\ runs = 0 /\ exitCode = -1
    /\ nsListCalls = <<>>
    /\ podListCalls = <<>> /\ evaluated = <<>> /\ lookupCalls = <<>>
    /\ deleteCalls = <<>> /\ pods0 = pods /\ objs0 = objs

Init ==
    /\ cfg \in ConfigSet
    /\ nsStore = NamespaceUniverse
    /\ \E S \in PodSets : pods = SubSeqBy(PodUniverse, S)
    /\ objs = ObjectUniverse
    /\ now \in 0..MaxTime
    /\ InitProcess

\* ------------------------------ inputs for the resolution of the namespaces
\* namespaces that carry two labels each, so that one namespace can match
\* several selectors of --namespace-labels
NamespaceStoreTwoLabels ==
    << [name |-> NsA, labels |-> Label("team", "t") @@ Label("env", "e")],
       [name |-> NsB, labels |-> Label("team", "u") @@ Label("env", "e")] >>

ReapNamespacesValues ==
    { <<"all">>, <<"ALL">>, <<>>, <<"a">>, <<"a", ",", "b">>, <<"all", ",", "a">> }

NamespaceLabelsValues ==
    { <<>>, <<"team", "=", "t">>, <<"team", "=", "t", ",", "env", "=", "e">>,
      <<"team", "=", "zz">> }

PodsLabelsValues == { <<>>, <<"app", "=", "x">> }

NsConfigSet ==
    [runOnce : BOOLEAN, reapMax : {0}, reapNamespaces : ReapNamespacesValues,
     namespaceLabels : NamespaceLabelsValues, podsLabels : PodsLabelsValues,
     jobLabel : {<<"job">>}]

\* a pod in each namespace under one application label, and a pod under another
NsPods ==
    << PodUniverse[1], PodUniverse[6],
       [name |-> "p7", namespace |-> NsB, creationTimestamp |-> 0,
        labels |-> Label("app", "y") @@ Label("job", "2"),
        annotations |-> Ann(<<"30", "m">>)] >>

InitNs ==
    /\ cfg \in NsConfigSet
    /\ nsStore = NamespaceStoreTwoLabels
    /\ pods = NsPods
    /\ objs = ObjectUniverse
    /\ now \in 0..MaxTime
    /\ InitProcess


\* ------------------------------------- inputs with the status of the pods
\* pods with the fields of v1.PodStatus: the reason of the phase and the
\* start time, which is nil until the kubelet has acknowledged the pod
StatusPodUniverse ==
    << [name |-> "v1", namespace |-> NsA, creationTimestamp |-> 0,
        labels |-> Label("app", "x") @@ Label("job", "1"),
        annotations |-> Ann(<<"1", "h">>),
        reason |-> <<"Evicted">>, startTime |-> [set |-> TRUE, t |-> 0]],
       [name |-> "v2", namespace |-> NsA, creationTimestamp |-> 0,
        labels |-> Label("app", "x") @@ Label("job", "2"),
        annotations |-> Ann(<<"30", "m">>),
        reason |-> <<>>, startTime |-> [set |-> FALSE, t |-> 0]],
       [name |-> "v3", namespace |-> NsB, creationTimestamp |-> 0,
        labels |-> Label("app", "x") @@ Label("job", "1"),
        annotations |-> Ann(<<"30", "m">>),
        reason |-> <<>>, startTime |-> [set |-> TRUE, t |-> 0]] >>

StatusConfigSet ==
    [runOnce : BOOLEAN, reapMax : {0}, reapNamespaces : {<<"all">>},
     namespaceLabels : NamespaceLabelsSet, podsLabels : {<<>>},
     jobLabel : {<<"job">>}]

InitStatus ==
    /\ cfg \in StatusConfigSet
    /\ nsStore = NamespaceUniverse
    /\ \E S \in SUBSET Range(StatusPodUniverse) : pods = SubSeqBy(StatusPodUniverse, S)
    /\ objs = ObjectUniverse
    /\ now \in 0..MaxTime
    /\ InitProcess


\* ------------------------------------------------------------ code decisions
\* mutant: the cap test without its "0 disables the limit" guard
CapReachedNoZeroCheck(max, n) == n >= max

\* main.go:271  *reapMax != 0 && toReap >= *reapMax
CapReached(max, n) == max # 0 /\ n >= max

\* mutant: a pod is reaped as soon as its age reaches its lifetime
ExpiredAtLifetime(currentLifetime, lifetime) == currentLifetime >= lifetime

\* main.go:299  currentLifetime > lifetime
Expired(currentLifetime, lifetime) == currentLifetime > lifetime

\* main.go:258-304: toReap is initialised to 0 and never assigned again
ToReapAfterCandidate(n) == n

\* mutant: "all" is recognised in lower case only
ExplicitNamespacesCaseSensitive(s) ==
    LET tokens == Split(s, ",") IN
    IF Len(tokens) = 1 /\ tokens[1] = <<"all">>
    THEN <<NamespaceAll>>
    ELSE tokens

\* mutant: empty tokens are dropped from the list
ExplicitNamespacesDropEmpty(s) ==
    LET tokens == Split(s, ",") IN
    IF Len(tokens) = 1 /\ ToLower(tokens[1]) = <<"all">>
    THEN <<NamespaceAll>>
    ELSE SelectSeq(tokens, LAMBDA t : t # <<>>)

\* main.go:228-231: the namespaces of --reap-namespaces
ExplicitNamespaces(s) ==
    LET tokens == Split(s, ",") IN
    IF Len(tokens) = 1 /\ ToLower(tokens[1]) = <<"all">>
    THEN <<NamespaceAll>>
    ELSE tokens

\* mutant: the annotation is read without the presence test, a missing one
\* counting as a zero lifetime
LifetimeDefaultZero(pod) ==
    IF lifetimeAnnotation \notin DOMAIN pod.annotations
    THEN [present |-> TRUE, ok |-> TRUE, d |-> 0]
    ELSE LET parsed == ParseDuration(pod.annotations[lifetimeAnnotation]) IN
         [present |-> TRUE, ok |-> parsed.ok, d |-> parsed.d]

\* mutant: the error of time.ParseDuration is dropped, leaving the zero duration
LifetimeIgnoreParseError(pod) ==
    IF lifetimeAnnotation \notin DOMAIN pod.annotations
    THEN [present |-> FALSE, ok |-> FALSE, d |-> 0]
    ELSE LET parsed == ParseDuration(pod.annotations[lifetimeAnnotation]) IN
         [present |-> TRUE, ok |-> TRUE, d |-> IF parsed.ok THEN parsed.d ELSE 0]

\* mutant: the namespaces of --reap-namespaces are kept when namespace label
\* selectors are configured
NamespacesKeptBeforeLabels(explicit) == explicit

\* main.go:232-233: with namespace label selectors the list starts from nil
NamespacesBeforeLabels(explicit) == <<>>

\* mutant: the pods of every namespace are listed
PodListNamespaceAll(ns) == NamespaceAll

\* main.go:264: the pod list call is scoped to the namespace of the outer loop
PodListNamespace(ns) == ns

\* mutant: the error flag is never raised
ErrNumAlwaysZero(e) == 0

\* main.go:182-188: errNum of the main loop
ErrNum(e) == IF e # "nil" THEN 1 ELSE 0

\* mutant: every deletion is counted as the deletion of a pod
DeletedAfterAsPod(counts, kind) == [counts EXCEPT !["pod"] = @ + 1]

\* main.go:370, 381, 392, 403: the deleted counter of the kind is incremented
DeletedAfter(counts, kind) == [counts EXCEPT ![kind] = @ + 1]

\* mutant: run returns nil whatever reap counted
RunResultIgnoresErrors(ec) == "nil"

\* main.go:217-223: the result of run after reap returned errCount
RunResult(ec) == IF ec > 0 THEN "reap" ELSE "nil"

\* main.go:276-288: the declared lifetime of a pod: absent, unparseable, or d
Lifetime(pod) ==
    IF lifetimeAnnotation \notin DOMAIN pod.annotations
    THEN [present |-> FALSE, ok |-> FALSE, d |-> 0]
    ELSE LET parsed == ParseDuration(pod.annotations[lifetimeAnnotation]) IN
         [present |-> TRUE, ok |-> parsed.ok, d |-> parsed.d]

\* mutant: a pod without the job label proceeds with an empty job identifier
EvaluateToleratesNoJobLabel(pod, jobLabel, t) ==
    LET parsed == Lifetime(pod) IN
    IF ~parsed.present THEN [verdict |-> "no annotation"]
    ELSE IF ~parsed.ok THEN [verdict |-> "parse error"]
         ELSE IF Expired(t - pod.creationTimestamp, parsed.d)
              THEN [verdict |-> "candidate",
                    job |-> [jobID |-> IF jobLabel \in DOMAIN pod.labels
                                       THEN pod.labels[jobLabel] ELSE <<>>,
                             podName |-> pod.name, namespace |-> pod.namespace]]
              ELSE [verdict |-> "alive"]

\* main.go:276-303: the verdict of getJobs on one pod at time t
Evaluate(pod, jobLabel, t) ==
    LET parsed == Lifetime(pod) IN
    IF ~parsed.present THEN [verdict |-> "no annotation"]
    ELSE IF ~parsed.ok THEN [verdict |-> "parse error"]
         ELSE IF jobLabel \notin DOMAIN pod.labels THEN [verdict |-> "no job label"]
         ELSE IF Expired(t - pod.creationTimestamp, parsed.d)
              THEN [verdict |-> "candidate",
                    job |-> [jobID |-> pod.labels[jobLabel], podName |-> pod.name,
                             namespace |-> pod.namespace]]
              ELSE [verdict |-> "alive"]

\* main.go:313,325,335,345: the jobObject built for a job and a listed item
JobObject(kind, job, name, ns) ==
    [objectType |-> kind, jobID |-> job.jobID, name |-> name, namespace |-> ns]

\* mutant: the candidates gathered so far are returned with the error
JobsKeptOnListError(j) == j

\* main.go:268: what getJobs returns for jobs when a pod list call fails
JobsOnListError(j) == <<>>

\* mutant: the selector names the job label only, whatever its value
JobSelectorAnyJob(jobLabel, job) == jobLabel

\* mutant: the selector is built from the pod name
JobSelectorByPodName(jobLabel, job) == SprintfEq(jobLabel, <<job.podName>>)

\* main.go:315-317: the label selector of the lookups of a job
JobSelector(jobLabel, job) == SprintfEq(jobLabel, job.jobID)

\* mutant: the lookups are not scoped to the namespace of the job
LookupNamespaceAll(job) == NamespaceAll

\* main.go:318,328,338: the namespace the lookups of a job are scoped to
LookupNamespace(job) == job.namespace

\* mutant: a failed lookup is logged and what was gathered is reaped
AfterLookupErrorReapGathered(gathered) == [pc |-> "reap", jobObjects |-> gathered]

\* main.go:319-323, 329-333, 339-343: a failed lookup ends getJobObjects and
\* run (main.go:213-216) with nothing to reap
AfterLookupError(gathered) == [pc |-> "runReturn", jobObjects |-> <<>>]

\* mutant: reap gives up at the first failed deletion
ReapLoopEndsOnError(i, n, ok) == i >= n \/ ~ok

\* main.go:358, 367: the loop of reap ends after the last resource only
ReapLoopEnds(i, n, ok) == i >= n

OfKind(kind) == SelectSeq(objs, LAMBDA o : o.kind = kind)

NextStage(st) ==
    CASE st = "service"   -> "configmap"
      [] st = "configmap" -> "secret"
      [] st = "secret"    -> "service"

\* ----------------------------------------------------------------- actions
\* run (main.go:199-202) entered from the loop of main (main.go:183), then
\* getNamespaces up to its first list call (main.go:226-234)
RunStart ==
    /\ pc = "run"
    /\ start' = now
    /\ durationArg' = 0
    /\ err' = "nil"
    /\ nsLabelIdx' = 1
    /\ nsIdx' = 1 /\ lIdx' = 1 /\ podItems' = <<>> /\ podIdx' = 1
    /\ jobs' = <<>> /\ toReap' = 0
    /\ jobObjects' = <<>> /\ jobIdx' = 1 /\ stage' = "service"
    /\ reapIdx' = 1 /\ errCount' = 0 /\ deleted' = ZeroCounts
    /\ nsListCalls' = <<>>
    /\ podListCalls' = <<>> /\ evaluated' = <<>> /\ lookupCalls' = <<>>
    /\ deleteCalls' = <<>> /\ pods0' = pods /\ objs0' = objs
    /\ IF cfg.namespaceLabels # <<>>
       THEN /\ namespaces' = NamespacesBeforeLabels(ExplicitNamespaces(cfg.reapNamespaces))
            /\ pc' = "nsList"
       ELSE namespaces' = ExplicitNamespaces(cfg.reapNamespaces) /\ pc' = "podList"
    /\ UNCHANGED <<cfg, cluster, now, metrics, mainVars>>

\* getJobs returns jobs j without error (main.go:273, 307); run goes on to
\* getJobObjects (main.go:212), whose loop and reap's are empty for no jobs
ReturnJobs(j) ==
    IF j = <<>>
    THEN pc' = "runReturn" /\ err' = "nil"
    ELSE pc' = "lookup" /\ err' = err

\* mutant: the selectors are the outer loop and the namespaces the inner one
AfterListingSelectorsOuter(j) ==
    IF nsIdx = Len(namespaces) /\ lIdx = Len(Split(cfg.podsLabels, ","))
    THEN ReturnJobs(j) /\ UNCHANGED <<nsIdx, lIdx>>
    ELSE /\ pc' = "podList" /\ err' = err
         /\ IF nsIdx < Len(namespaces)
            THEN nsIdx' = nsIdx + 1 /\ lIdx' = lIdx
            ELSE nsIdx' = 1 /\ lIdx' = lIdx + 1

\* the end of the loop body over one pod listing (main.go:304-306)
AfterListing(j) ==
    IF nsIdx = Len(namespaces) /\ lIdx = Len(Split(cfg.podsLabels, ","))
    THEN ReturnJobs(j) /\ UNCHANGED <<nsIdx, lIdx>>
    ELSE /\ pc' = "podList" /\ err' = err
         /\ IF lIdx < Len(Split(cfg.podsLabels, ","))
            THEN lIdx' = lIdx + 1 /\ nsIdx' = nsIdx
            ELSE lIdx' = 1 /\ nsIdx' = nsIdx + 1

\* one iteration of the selector loop of getNamespaces (main.go:235-249)
ListNamespaces ==
    /\ pc = "nsList"
    /\ LET nsLabels == Split(cfg.namespaceLabels, ",")
           label    == nsLabels[nsLabelIdx]
       IN \E ok \in BOOLEAN :
            /\ ok => SelectorValid(label)
            /\ nsListCalls' = Append(nsListCalls,
                   [selector |-> label, ok |-> ok,
                    names |-> IF ok
                              THEN LET found == ListNamespaceItems(nsStore, label) IN
                                   [i \in 1..Len(found) |-> found[i].name]
                              ELSE <<>>])
            /\ IF ~ok
               THEN /\ namespaces' = <<>>
                    /\ err' = "namespace list"
                    /\ pc' = "runReturn"
                    /\ UNCHANGED nsLabelIdx
               ELSE LET items == ListNamespaceItems(nsStore, label)
                        found == namespaces \o [i \in 1..Len(items) |-> items[i].name]
                    IN /\ namespaces' = found
                       /\ IF nsLabelIdx < Len(nsLabels)
                          THEN nsLabelIdx' = nsLabelIdx + 1 /\ pc' = "nsList" /\ err' = err
                          ELSE /\ UNCHANGED nsLabelIdx
                               /\ IF found = <<>>
                                  THEN pc' = "runReturn" /\ err' = "nil"
                                  ELSE pc' = "podList" /\ err' = err
    /\ UNCHANGED <<cfg, cluster, now, start, durationArg, jobVars, objVars,
                   reapVars, metrics, mainVars,
                   podListCalls, evaluated, lookupCalls, deleteCalls, pods0, objs0>>

\* the pod list call of getJobs for one (namespace, selector) (main.go:259-269)
ListPods ==
    /\ pc = "podList"
    /\ LET ns == PodListNamespace(namespaces[nsIdx])
           l  == Split(cfg.podsLabels, ",")[lIdx]
       IN \E ok \in BOOLEAN :
            /\ ok => SelectorValid(l)
            /\ podListCalls' = Append(podListCalls,
                   [namespace |-> ns, selector |-> l, ok |-> ok,
                    count |-> IF ok THEN Len(ListItems(pods, ns, l)) ELSE 0])
            /\ IF ~ok
               THEN /\ metricErrorsTotal' = metricErrorsTotal + 1
                    /\ jobs' = JobsOnListError(jobs)
                    /\ err' = "pod list"
                    /\ pc' = "runReturn"
                    /\ UNCHANGED <<nsIdx, lIdx, podItems, podIdx>>
               ELSE LET items == ListItems(pods, ns, l) IN
                    /\ UNCHANGED <<metricErrorsTotal, jobs>>
                    /\ podItems' = items
                    /\ podIdx' = 1
                    /\ IF items = <<>>
                       THEN AfterListing(jobs)
                       ELSE pc' = "evalPod" /\ err' = err /\ UNCHANGED <<nsIdx, lIdx>>
    /\ UNCHANGED <<cfg, cluster, now, start, durationArg, nsVars, toReap, objVars,
                   reapVars, metricError, metricReapedTotal, metricDuration, mainVars,
                   nsListCalls, evaluated, lookupCalls, deleteCalls, pods0, objs0>>

\* one iteration of the loop over the listed pods (main.go:270-304)
EvalPod ==
    /\ pc = "evalPod"
    /\ LET pod == podItems[podIdx] IN
       IF CapReached(cfg.reapMax, toReap)
       THEN /\ ReturnJobs(jobs)
            /\ UNCHANGED <<nsIdx, lIdx, podItems, podIdx, jobs, toReap,
                           metricErrorsTotal, evaluated>>
       ELSE LET r == Evaluate(pod, cfg.jobLabel, now)
                j == IF r.verdict = "candidate" THEN Append(jobs, r.job) ELSE jobs
            IN /\ jobs' = j
               /\ toReap' = IF r.verdict = "candidate" THEN ToReapAfterCandidate(toReap) ELSE toReap
               /\ metricErrorsTotal' = IF r.verdict = "parse error"
                                       THEN metricErrorsTotal + 1 ELSE metricErrorsTotal
               /\ evaluated' = Append(evaluated, [pod |-> pod, at |-> now, verdict |-> r.verdict])
               /\ UNCHANGED podItems
               /\ IF podIdx < Len(podItems)
                  THEN podIdx' = podIdx + 1 /\ pc' = "evalPod" /\ err' = err
                       /\ UNCHANGED <<nsIdx, lIdx>>
                  ELSE podIdx' = podIdx /\ AfterListing(j)
    /\ UNCHANGED <<cfg, cluster, now, start, durationArg, nsVars, objVars,
                   reapVars, metricError, metricReapedTotal, metricDuration, mainVars,
                   nsListCalls, podListCalls, lookupCalls, deleteCalls, pods0, objs0>>

\* one list call of getJobObjects for the current job (main.go:312-347); the
\* job's own pod is appended before its services are listed (main.go:313)
ListJobObjects ==
    /\ pc = "lookup"
    /\ LET job   == jobs[jobIdx]
           sel   == JobSelector(cfg.jobLabel, job)
           ns    == LookupNamespace(job)
           base  == IF stage = "service"
                    THEN Append(jobObjects, JobObject("pod", job, job.podName, job.namespace))
                    ELSE jobObjects
       IN \E ok \in BOOLEAN :
            /\ ok => SelectorValid(sel)
            /\ lookupCalls' = Append(lookupCalls,
                   [kind |-> stage, namespace |-> ns, selector |-> sel, ok |-> ok])
            /\ IF ~ok
               THEN /\ metricErrorsTotal' = metricErrorsTotal + 1
                    /\ jobObjects' = AfterLookupError(base).jobObjects
                    /\ err' = stage
                    /\ pc' = AfterLookupError(base).pc
                    /\ UNCHANGED <<jobIdx, stage>>
               ELSE LET items == ListItems(OfKind(stage), ns, sel) IN
                    /\ UNCHANGED metricErrorsTotal
                    /\ jobObjects' = base \o [i \in 1..Len(items) |->
                           JobObject(stage, job, items[i].name, items[i].namespace)]
                    /\ stage' = NextStage(stage)
                    /\ err' = err
                    /\ IF stage = "secret"
                       THEN IF jobIdx < Len(jobs)
                            THEN jobIdx' = jobIdx + 1 /\ pc' = "lookup"
                            ELSE jobIdx' = jobIdx /\ pc' = "reap"
                       ELSE jobIdx' = jobIdx /\ pc' = "lookup"
    /\ UNCHANGED <<cfg, cluster, now, start, durationArg, nsVars, jobVars,
                   reapVars, metricError, metricReapedTotal, metricDuration, mainVars,
                   nsListCalls, podListCalls, evaluated, deleteCalls, pods0, objs0>>

\* one iteration of the loop of reap (main.go:358-405), and after the last
\* one its return into run (main.go:407-413, 217-223)
DeleteObject ==
    /\ pc = "reap"
    /\ LET o == jobObjects[reapIdx] IN
       \E apiOk \in BOOLEAN :
         LET present == IF o.objectType = "pod"
                        THEN Exists(pods, o.namespace, o.name)
                        ELSE Exists(OfKind(o.objectType), o.namespace, o.name)
             ok == apiOk /\ present
             ec == IF ok THEN errCount ELSE errCount + 1
         IN /\ deleteCalls' = Append(deleteCalls,
                   [kind |-> o.objectType, namespace |-> o.namespace, name |-> o.name, ok |-> ok])
            /\ errCount' = ec
            /\ IF ok
               THEN /\ pods' = IF o.objectType = "pod"
                               THEN Remove(pods, o.namespace, o.name) ELSE pods
                    /\ objs' = IF o.objectType = "pod" THEN objs
                               ELSE SelectSeq(objs, LAMBDA x :
                                      ~(x.kind = o.objectType /\ x.namespace = o.namespace
                                        /\ x.name = o.name))
                    /\ metricReapedTotal' = [metricReapedTotal EXCEPT ![o.objectType] = @ + 1]
                    /\ deleted' = DeletedAfter(deleted, o.objectType)
                    /\ UNCHANGED metricErrorsTotal
               ELSE /\ metricErrorsTotal' = metricErrorsTotal + 1
                    /\ UNCHANGED <<pods, objs, metricReapedTotal, deleted>>
            /\ IF ~ReapLoopEnds(reapIdx, Len(jobObjects), ok)
               THEN reapIdx' = reapIdx + 1 /\ pc' = "reap" /\ err' = err
               ELSE /\ reapIdx' = reapIdx
                    /\ pc' = "runReturn"
                    /\ err' = RunResult(ec)
    /\ UNCHANGED <<cfg, nsStore, now, start, durationArg, nsVars, jobVars, objVars,
                   metricError, metricDuration, mainVars,
                   nsListCalls, podListCalls, evaluated, lookupCalls, pods0, objs0>>

\* run returns: its deferred metricDuration.Set (main.go:201), whose argument
\* was computed when the defer statement ran, then main's bookkeeping of the
\* result (main.go:184-192)
RunReturn ==
    /\ pc = "runReturn"
    /\ metricDuration' = durationArg
    /\ LET errNum == ErrNum(err) IN
       /\ metricError' = errNum
       /\ runs' = IF runs < MaxRuns THEN runs + 1 ELSE runs
       /\ IF cfg.runOnce
          THEN exitCode' = errNum /\ pc' = "exited"
          ELSE exitCode' = exitCode /\ pc' = "sleep"
    /\ UNCHANGED <<cfg, cluster, now, start, durationArg, err, nsVars, jobVars, objVars,
                   reapVars, metricErrorsTotal, metricReapedTotal, history>>

\* time.Sleep(*reapInterval) (main.go:194), then the next iteration
Sleep ==
    /\ pc = "sleep"
    /\ runs < MaxRuns
    /\ now + reapInterval <= MaxTime
    /\ now' = now + reapInterval
    /\ pc' = "run"
    /\ UNCHANGED <<cfg, cluster, start, durationArg, err, nsVars, jobVars, objVars,
                   reapVars, metrics, mainVars, history>>

\* the clock advances; it is stepped where the program is about to read it
\* (timeNow at main.go:200 and main.go:297), an advance anywhere else being
\* indistinguishable from one at the next read
Tick ==
    /\ pc \in {"run", "evalPod"}
    /\ now < MaxTime
    /\ now' = now + 1
    /\ UNCHANGED <<cfg, cluster, pc, start, durationArg, err, nsVars, jobVars, objVars,
                   reapVars, metrics, mainVars, history>>

Next ==
    \/ RunStart
    \/ ListNamespaces
    \/ ListPods
    \/ EvalPod
    \/ ListJobObjects
    \/ DeleteObject
    \/ RunReturn
    \/ Sleep
    \/ Tick

Spec == Init /\ [][Next]_vars

\* the same program over the namespace configurations of InitNs
SpecNs == InitNs /\ [][Next]_vars

\* the same program over pods that report a status
SpecStatus == InitStatus /\ [][Next]_vars

\* ------------------------------------ inputs for the order of the listing
\* two namespaces in either order, and selector lists of two selectors that
\* match different pods or the same pod
OrderConfigSet ==
    [runOnce : BOOLEAN, reapMax : {0},
     reapNamespaces : { <<"a", ",", "b">>, <<"b", ",", "a">> },
     namespaceLabels : NamespaceLabelsSet,
     podsLabels : { <<>>, <<"app", "=", "y", ",", "app", "=", "x">>,
                    <<"app", "=", "x", ",", "job", "=", "1">> },
     jobLabel : {<<"job">>}]

\* two pods of job 1 in namespace a, and a pod of job 2 in namespace b
OrderPods ==
    << PodUniverse[1],
       [name |-> "p8", namespace |-> NsA, creationTimestamp |-> 0,
        labels |-> Label("app", "x") @@ Label("job", "1"),
        annotations |-> Ann(<<"30", "m">>)],
       [name |-> "p7", namespace |-> NsB, creationTimestamp |-> 0,
        labels |-> Label("app", "y") @@ Label("job", "2"),
        annotations |-> Ann(<<"30", "m">>)] >>

InitOrder ==
    /\ cfg \in OrderConfigSet
    /\ nsStore = NamespaceUniverse
    /\ pods = OrderPods
    /\ objs = ObjectUniverse
    /\ now \in 0..MaxTime
    /\ InitProcess

\* the same program over the configurations of InitOrder
SpecOrder == InitOrder /\ [][Next]_vars

\* ------------------------------------------------- the metrics listener
\* mutant: the process exits with code 0 when the listener fails
ListenFailureExitsZero(p, code) == [pc |-> "exited", exitCode |-> 0]

\* main.go:174-177: os.Exit(1) in the goroutine of the listener
ListenFailure(p, code) == [pc |-> "exited", exitCode |-> 1]

\* http.ListenAndServe returns an error (main.go:173-178): the listener could
\* not bind, or stopped serving; the goroutine ends the process wherever the
\* main goroutine is. Serving a request only reads the metrics.
ListenAndServeFails ==
    /\ pc # "exited"
    /\ pc' = ListenFailure(pc, exitCode).pc
    /\ exitCode' = ListenFailure(pc, exitCode).exitCode
    /\ UNCHANGED <<cfg, cluster, now, start, durationArg, err, nsVars, jobVars, objVars,
                   reapVars, metrics, runs, history>>

NextHttp ==
    \/ RunStart
    \/ ListNamespaces
    \/ ListPods
    \/ EvalPod
    \/ ListJobObjects
    \/ DeleteObject
    \/ RunReturn
    \/ Sleep
    \/ Tick
    \/ ListenAndServeFails

\* the reaping loop next to the goroutine of the metrics listener
SpecHttp == InitStatus /\ [][NextHttp]_vars

\* ------------------------------------------------ the loop that never ends
\* loop mode over every namespace, with and without namespace label selectors
LiveConfigSet ==
    [runOnce : {FALSE}, reapMax : {0}, reapNamespaces : {<<"all">>},
     namespaceLabels : NamespaceLabelsSet, podsLabels : {<<>>},
     jobLabel : {<<"job">>}]

\* the pods of job 1, one in each namespace
LivePods == << PodUniverse[1], PodUniverse[6] >>

InitLive ==
    /\ cfg \in LiveConfigSet
    /\ nsStore = NamespaceUniverse
    /\ \E S \in SUBSET Range(LivePods) : pods = SubSeqBy(LivePods, S)
    /\ objs = ObjectUniverse
    /\ now \in 0..MaxTime
    /\ InitProcess

\* the step appended a failed call to the history c
FailedCall(c, cNext) == Len(cNext) > Len(c) /\ ~cNext[Len(cNext)].ok

\* the API server fails at most MaxFaults counted calls, and none after that
FaultBudget ==
    (\/ FailedCall(nsListCalls, nsListCalls')
     \/ FailedCall(podListCalls, podListCalls')
     \/ FailedCall(lookupCalls, lookupCalls')
     \/ FailedCall(deleteCalls, deleteCalls')) => metricErrorsTotal < MaxFaults

\* time.Sleep(*reapInterval) (main.go:194) in a loop without end: the clock
\* stops at MaxTime, by when every pod that can expire has expired
SleepLive ==
    /\ pc = "sleep"
    /\ now' = IF now + reapInterval <= MaxTime THEN now + reapInterval ELSE MaxTime
    /\ pc' = "run"
    /\ UNCHANGED <<cfg, cluster, start, durationArg, err, nsVars, jobVars, objVars,
                   reapVars, metrics, mainVars, history>>

ListNamespacesLive == ListNamespaces /\ FaultBudget

ListPodsLive == ListPods /\ FaultBudget

ListJobObjectsLive == ListJobObjects /\ FaultBudget

DeleteObjectLive == DeleteObject /\ FaultBudget

NextLive ==
    \/ RunStart
    \/ ListNamespacesLive
    \/ ListPodsLive
    \/ EvalPod
    \/ ListJobObjectsLive
    \/ DeleteObjectLive
    \/ RunReturn
    \/ SleepLive
    \/ Tick

\* main is one goroutine that is never blocked for ever: every API call
\* returns and every sleep ends
SpecLive == InitLive /\ [][NextLive]_vars /\ WF_vars(NextLive)

\* ------------------------------------------- concurrent cluster activity
\* another client of the API server deletes a pod of the universe and creates
\* a new pod of the same name and namespace, created now, with or without
\* the lifetime annotation, while a run is between its listing and its
\* deletions
RecreatePod ==
    /\ pc \in {"evalPod", "lookup", "reap"}
    /\ \E i \in DOMAIN pods, annotated \in BOOLEAN :
          LET new == [pods[i] EXCEPT !.creationTimestamp = now,
                                     !.annotations = IF annotated THEN @ ELSE NoLabels]
          IN /\ pods[i] \in Range(PodUniverse)
             /\ new # pods[i]
             /\ pods' = [pods EXCEPT ![i] = new]
    /\ UNCHANGED <<cfg, nsStore, objs, now, pc, start, durationArg, err, nsVars, jobVars,
                   objVars, reapVars, metrics, mainVars, history>>

NextCluster ==
    \/ RunStart
    \/ ListNamespaces
    \/ ListPods
    \/ EvalPod
    \/ ListJobObjects
    \/ DeleteObject
    \/ RunReturn
    \/ Sleep
    \/ Tick
    \/ RecreatePod

ClusterConfigSet ==
    [runOnce : BOOLEAN, reapMax : {0}, reapNamespaces : {<<"all">>},
     namespaceLabels : NamespaceLabelsSet, podsLabels : {<<>>},
     jobLabel : {<<"job">>}]

InitCluster ==
    /\ cfg \in ClusterConfigSet
    /\ nsStore = NamespaceUniverse
    /\ \E S \in SUBSET Range(LivePods) : pods = SubSeqBy(LivePods, S)
    /\ objs = ObjectUniverse
    /\ now \in 0..MaxTime
    /\ InitProcess

\* the reaper next to another client of the API server
SpecCluster == InitCluster /\ [][NextCluster]_vars

TypeOK ==
    /\ pc \in {"run", "nsList", "podList", "evalPod", "lookup", "reap",
               "runReturn", "sleep", "exited"}
    /\ now \in 0..MaxTime
    /\ runs \in 0..MaxRuns
    /\ toReap \in Nat


\* ------------------------------------------------- vocabulary of the claims
\* the last run has ended and the next one has not started
RunEnded ==
    \/ pc \in {"runReturn", "sleep", "exited"}
    \/ pc = "run" /\ runs > 0

\* getJobs has returned its candidates to run without an error
GetJobsReturned ==
    \/ pc \in {"lookup", "reap"}
    \/ RunEnded /\ err \notin {"namespace list", "pod list"}

HasAnnotation(pod) == lifetimeAnnotation \in DOMAIN pod.annotations

Parseable(pod) ==
    HasAnnotation(pod) /\ ParseDuration(pod.annotations[lifetimeAnnotation]).ok

\* carries a parseable lifetime annotation and the job label
Judgeable(pod) == Parseable(pod) /\ cfg.jobLabel \in DOMAIN pod.labels

\* the evaluation e found its pod older than its declared lifetime
PastLifetime(e) ==
    e.at - e.pod.creationTimestamp > ParseDuration(e.pod.annotations[lifetimeAnnotation]).d

AtLifetime(e) ==
    e.at - e.pod.creationTimestamp = ParseDuration(e.pod.annotations[lifetimeAnnotation]).d

Qualified(e) == Judgeable(e.pod) /\ PastLifetime(e)

InJobs(pod) ==
    \E i \in DOMAIN jobs : jobs[i].podName = pod.name /\ jobs[i].namespace = pod.namespace

PodJobOf(pod) ==
    [jobID |-> pod.labels[cfg.jobLabel], podName |-> pod.name, namespace |-> pod.namespace]

\* the candidates among the evaluations so far, in evaluation order
RECURSIVE QualifiedJobs(_)
QualifiedJobs(es) ==
    IF es = <<>> THEN <<>>
    ELSE IF Qualified(Head(es))
         THEN <<PodJobOf(Head(es).pod)>> \o QualifiedJobs(Tail(es))
         ELSE QualifiedJobs(Tail(es))

FirstN(seq, n) == SubSeq(seq, 1, IF Len(seq) < n THEN Len(seq) ELSE n)

RECURSIVE ListedCount(_)
\* the number of pods the pod list calls returned
ListedCount(calls) ==
    IF calls = <<>> THEN 0 ELSE Head(calls).count + ListedCount(Tail(calls))

AnyFailed(calls) == \E i \in DOMAIN calls : ~calls[i].ok

\* the stored objects of a kind associated with a job: same namespace, job
\* label equal to the job identifier
AssociatedOfKind(kind, job) ==
    SelectSeq(objs0, LAMBDA o :
        /\ o.kind = kind
        /\ o.namespace = job.namespace
        /\ cfg.jobLabel \in DOMAIN o.labels
        /\ o.labels[cfg.jobLabel] = job.jobID)

AsJobObjects(items, job) ==
    [i \in 1..Len(items) |->
        [objectType |-> items[i].kind, jobID |-> job.jobID,
         name |-> items[i].name, namespace |-> items[i].namespace]]

RECURSIVE ExpectedJobObjects(_)
ExpectedJobObjects(js) ==
    IF js = <<>> THEN <<>>
    ELSE LET job == Head(js) IN
         << [objectType |-> "pod", jobID |-> job.jobID,
             name |-> job.podName, namespace |-> job.namespace] >>
         \o AsJobObjects(AssociatedOfKind("service", job), job)
         \o AsJobObjects(AssociatedOfKind("configmap", job), job)
         \o AsJobObjects(AssociatedOfKind("secret", job), job)
         \o ExpectedJobObjects(Tail(js))

\* ------------------------------------------------------------------ claims
\* C1: for every reap-max N > 0, getJobs returns at most N candidates, and
\* they are the first N qualifying pods in namespace-then-selector-then-
\* listing order.
C1_CapRespected ==
    (cfg.reapMax > 0 /\ GetJobsReturned) =>
        /\ Len(jobs) <= cfg.reapMax
        /\ jobs = FirstN(QualifiedJobs(evaluated), cfg.reapMax)

\* C2: a pod that lacks the lifetime annotation is never among the
\* candidates of getJobs.
C2_NoAnnotationNeverCandidate ==
    \A p \in Range(pods0) : ~HasAnnotation(p) => ~InJobs(p)

\* C2 witness: getJobs returned candidates after it evaluated an old pod that
\* lacks the annotation
C2_Witness ==
    /\ GetJobsReturned
    /\ jobs # <<>>
    /\ \E i \in DOMAIN evaluated :
         /\ ~HasAnnotation(evaluated[i].pod)
         /\ evaluated[i].at - evaluated[i].pod.creationTimestamp >= 2

C4_JobObjectsExact ==
    (pc = "reap" /\ deleteCalls = <<>>) => jobObjects = ExpectedJobObjects(jobs)

\* C4 witness: getJobObjects returned the objects of a job while the store
\* holds an object with the same job identifier in another namespace and an
\* object with another job identifier in the job's namespace
C4_Witness ==
    /\ pc = "reap" /\ deleteCalls = <<>>
    /\ Len(jobObjects) >= 3
    /\ \E o1, o2 \in Range(objs) :
         /\ cfg.jobLabel \in DOMAIN o1.labels /\ cfg.jobLabel \in DOMAIN o2.labels
         /\ o1.namespace # jobs[1].namespace /\ o1.labels[cfg.jobLabel] = jobs[1].jobID
         /\ o2.namespace = jobs[1].namespace /\ o2.labels[cfg.jobLabel] # jobs[1].jobID

\* C5: in reap every resource of the list receives a delete call, in list
\* order, whichever earlier deletions failed.
C5_EveryResourceAttempted ==
    /\ Len(deleteCalls) <= Len(jobObjects)
    /\ \A i \in DOMAIN deleteCalls :
         /\ deleteCalls[i].kind = jobObjects[i].objectType
         /\ deleteCalls[i].namespace = jobObjects[i].namespace
         /\ deleteCalls[i].name = jobObjects[i].name
    /\ (RunEnded /\ jobObjects # <<>>) => Len(deleteCalls) = Len(jobObjects)

\* C5 witness: reap has finished, and a delete call that failed is followed
\* by a later delete call
C5_Witness ==
    /\ RunEnded
    /\ \E i, k \in DOMAIN deleteCalls : i < k /\ ~deleteCalls[i].ok /\ deleteCalls[k].ok


\* C6: when a namespace list call or a pod list call fails, no candidate is
\* returned (those gathered before are discarded), nothing is looked up or
\* deleted, and the run ends with an error.
C6_ListFailureAborts ==
    /\ AnyFailed(nsListCalls) =>
         /\ RunEnded /\ err = "namespace list"
         /\ namespaces = <<>> /\ jobs = <<>> /\ podListCalls = <<>>
         /\ lookupCalls = <<>> /\ deleteCalls = <<>>
    /\ AnyFailed(podListCalls) =>
         /\ RunEnded /\ err = "pod list"
         /\ jobs = <<>> /\ lookupCalls = <<>> /\ deleteCalls = <<>>
    /\ (AnyFailed(nsListCalls) \/ AnyFailed(podListCalls)) =>
         /\ pc \in {"sleep", "exited"} => metricError = 1
         /\ pc = "exited" => exitCode = 1

\* C6 witness: a pod list call failed after an earlier listing had yielded a
\* candidate, and the run is over
C6_Witness ==
    /\ pc \in {"sleep", "exited"}
    /\ AnyFailed(podListCalls)
    /\ \E i \in DOMAIN evaluated : Qualified(evaluated[i])

\* C7: when a service, config-map or secret lookup fails, the run ends with an
\* error and the cluster is as it was when the run started; every lookup of
\* every candidate precedes the first delete call.
C7_LookupFailureDeletesNothing ==
    /\ AnyFailed(lookupCalls) =>
         /\ RunEnded /\ err \in {"service", "configmap", "secret"}
         /\ deleteCalls = <<>>
         /\ pods = pods0 /\ objs = objs0
         /\ pc \in {"sleep", "exited"} => metricError = 1
    /\ deleteCalls # <<>> =>
         /\ Len(lookupCalls) = 3 * Len(jobs)
         /\ ~AnyFailed(lookupCalls)

\* C7 witness: the lookups of a first candidate succeeded and a lookup of the
\* second candidate failed
C7_Witness ==
    /\ RunEnded
    /\ Len(lookupCalls) >= 4
    /\ AnyFailed(lookupCalls)
    /\ Len(jobs) >= 2

AllCallsOk ==
    /\ ~AnyFailed(nsListCalls) /\ ~AnyFailed(podListCalls)
    /\ ~AnyFailed(lookupCalls) /\ ~AnyFailed(deleteCalls)

\* C8: after a run in which every API call succeeded, no pod that qualified as
\* a candidate remains, no service, config-map or secret with a candidate's
\* job label remains in that candidate's namespace, and every pod without the
\* lifetime annotation is still there.
C8_SuccessfulRunReapsAll ==
    (RunEnded /\ AllCallsOk) =>
        /\ \A i \in DOMAIN evaluated :
             Qualified(evaluated[i]) =>
                /\ ~Exists(pods, evaluated[i].pod.namespace, evaluated[i].pod.name)
                /\ \A o \in Range(objs) :
                     ~ /\ o.namespace = evaluated[i].pod.namespace
                       /\ cfg.jobLabel \in DOMAIN o.labels
                       /\ o.labels[cfg.jobLabel] = evaluated[i].pod.labels[cfg.jobLabel]
        /\ \A p \in Range(pods0) : ~HasAnnotation(p) => p \in Range(pods)

\* C8 witness: a run without a cap and without a failed call has ended, it
\* deleted a pod and an associated object, and a pod without the annotation
\* was in the cluster
C8_Witness ==
    /\ RunEnded /\ AllCallsOk
    /\ cfg.reapMax = 0
    /\ \E i, k \in DOMAIN deleteCalls : deleteCalls[i].kind = "pod" /\ deleteCalls[k].kind # "pod"
    /\ \E p \in Range(pods0) : ~HasAnnotation(p)

Unparseable(pod) == HasAnnotation(pod) /\ ~Parseable(pod)

\* C9: a pod whose lifetime annotation does not parse is never a candidate and
\* stays in the cluster; unless the cap is reached, every pod of every listing
\* is still evaluated; and a run in which no call failed ends without error.
C9_ParseErrorSkipsPodOnly ==
    \A p \in Range(pods0) :
        Unparseable(p) =>
            /\ ~InJobs(p)
            /\ p \in Range(pods)
            /\ (GetJobsReturned /\ (cfg.reapMax = 0 \/ Len(jobs) < cfg.reapMax)) =>
                 /\ Len(podListCalls) = Len(namespaces) * Len(Split(cfg.podsLabels, ","))
                 /\ Len(evaluated) = ListedCount(podListCalls)
            /\ (RunEnded /\ AllCallsOk) => err = "nil"
            /\ (pc \in {"sleep", "exited"} /\ AllCallsOk) => metricError = 0
            /\ (pc = "exited" /\ AllCallsOk) => exitCode = 0

\* C9 witness: a run has ended without error in which getJobs evaluated a pod
\* with an unparseable annotation and, after it, a pod that it returned
C9_Witness ==
    /\ pc \in {"sleep", "exited"}
    /\ err = "nil"
    /\ \E i, k \in DOMAIN evaluated :
         /\ i < k
         /\ Unparseable(evaluated[i].pod)
         /\ Qualified(evaluated[k])
    /\ jobs # <<>>

\* C10: with reap-max 0 getJobs applies no cap: it issues every pod list call,
\* evaluates every listed pod and returns every qualifying one.
C10_NoCapWhenZero ==
    (cfg.reapMax = 0 /\ GetJobsReturned) =>
        /\ Len(podListCalls) = Len(namespaces) * Len(Split(cfg.podsLabels, ","))
        /\ Len(evaluated) = ListedCount(podListCalls)
        /\ jobs = QualifiedJobs(evaluated)

\* C10 witness: with reap-max 0 getJobs returned two candidates
C10_Witness ==
    /\ cfg.reapMax = 0
    /\ GetJobsReturned
    /\ Len(jobs) >= 2


\* --------------------------------------------- the resolution of namespaces
\* getNamespaces of the current or the last run returned without error
NsResolved ==
    \/ pc \in {"podList", "evalPod", "lookup", "reap"}
    \/ RunEnded /\ err # "namespace list"

RECURSIVE Concat(_)
Concat(ss) == IF ss = <<>> THEN <<>> ELSE Head(ss) \o Concat(Tail(ss))

\* what the namespace list calls of the run returned, call after call
LabelResults == Concat([i \in DOMAIN nsListCalls |-> nsListCalls[i].names])

\* s without the later occurrences of its elements
RECURSIVE FirstSeen(_)
FirstSeen(s) ==
    IF s = <<>> THEN <<>>
    ELSE LET d == FirstSeen(SubSeq(s, 1, Len(s) - 1))
             x == s[Len(s)]
         IN IF x \in Range(d) THEN d ELSE Append(d, x)

\* the word "all" in any of its spellings
IsAllWord(token) == token \in {<<"all">>, <<"ALL">>, <<"All">>}

\* C11: with namespace label selectors configured, every resolved namespace
\* was returned by one of the namespace list calls of the run, whatever
\* --reap-namespaces holds
C11_LabelsOverrideExplicitList ==
    (cfg.namespaceLabels # <<>> /\ NsResolved) =>
        \A i \in DOMAIN namespaces :
            \E c \in DOMAIN nsListCalls : namespaces[i] \in Range(nsListCalls[c].names)

C11_Witness ==
    /\ cfg.namespaceLabels = <<"team", "=", "t">>
    /\ cfg.reapNamespaces = <<"all">>
    /\ pc = "podList"
    /\ namespaces = <<NsA>>

C13_UnionWithoutDuplicates ==
    (cfg.namespaceLabels # <<>> /\ NsResolved) =>
        namespaces = FirstSeen(LabelResults)

C15_CandidatesFromResolvedNamespaces ==
    \A i \in DOMAIN jobs :
        /\ \/ NamespaceAll \in Range(namespaces)
           \/ jobs[i].namespace \in Range(namespaces)
        /\ \E pod \in Range(pods0) :
              /\ pod.name = jobs[i].podName
              /\ pod.namespace = jobs[i].namespace
              /\ \E l \in Range(Split(cfg.podsLabels, ",")) :
                    SelectorMatches(l, pod.labels)

\* a run over namespace a only that found its expired pod and left out the
\* expired pods of namespace b
C15_Witness ==
    /\ GetJobsReturned
    /\ namespaces = <<NsA>>
    /\ Len(jobs) = 1 /\ jobs[1].namespace = NsA
    /\ \E e \in Range(pods0) : e.namespace = NsB /\ now - e.creationTimestamp > 1


\* ------------------------------------------------- how a run is reported
\* main has recorded the result of the last run and no new run has started
RunAccounted ==
    \/ pc \in {"sleep", "exited"}
    \/ pc = "run" /\ runs > 0

\* a namespace, pod, service, config-map or secret list call of the run failed
ListingFailed ==
    AnyFailed(nsListCalls) \/ AnyFailed(podListCalls) \/ AnyFailed(lookupCalls)

\* a delete call of the run failed
DeletionFailed == AnyFailed(deleteCalls)

\* C16 as stated: once a run is accounted for, the error flag is 1 exactly
\* when a listing of the run failed, and a run-once process exits nonzero
\* exactly when a listing failed
C16_FlagIffListingFailed ==
    RunAccounted =>
        /\ metricError = (IF ListingFailed THEN 1 ELSE 0)
        /\ pc = "exited" => (exitCode # 0 <=> ListingFailed)

\* the return of run to main, and the end of the sleep of main
C16_Step ==
    /\ (pc = "runReturn" /\ pc' # "runReturn") =>
          /\ metricError' = (IF ListingFailed \/ DeletionFailed THEN 1 ELSE 0)
          /\ cfg.runOnce => (pc' = "exited" /\ exitCode' = metricError')
          /\ ~cfg.runOnce => (pc' = "sleep" /\ exitCode' = exitCode)
    /\ (pc = "sleep" /\ pc' # "sleep") => (pc' = "run" /\ now' >= now + reapInterval)
    /\ pc = "exited" => pc' = "exited"
    /\ pc' = "run" => pc \in {"run", "sleep"}

\* C16 amended: when run returns, the error flag becomes 1 if a listing or a
\* deletion of the run failed and 0 otherwise; a run-once process then exits
\* with the flag as its code; otherwise the next run starts only after the
\* reap interval has been slept
C16_FlagIffRunReturnedError == [][C16_Step]_vars

\* a second run without any failure, after a first run that counted an error
C16_Witness ==
    /\ pc = "sleep" /\ runs = 2
    /\ metricError = 0
    /\ metricErrorsTotal > 0
    /\ deleteCalls # <<>>
    /\ \A i \in DOMAIN evaluated : evaluated[i].verdict # "parse error"

\* C17 as stated: a run whose listings all succeeded returns no error, leaves
\* the error flag at 0 and exits with code 0, whatever deletions failed
C17_DeletionFailuresNeverFailRun ==
    (RunAccounted /\ ~ListingFailed) =>
        /\ err = "nil"
        /\ metricError = 0
        /\ pc = "exited" => exitCode = 0

\* C17 amended: a run whose listings all succeeded attempts every gathered
\* resource and completes; it returns an error, sets the error flag to 1 and
\* exits with code 1 exactly when at least one deletion failed
C17_DeletionFailuresReportedNotAborting ==
    (RunAccounted /\ ~ListingFailed) =>
        /\ Len(deleteCalls) = Len(jobObjects)
        /\ err # "nil" <=> DeletionFailed
        /\ metricError = (IF DeletionFailed THEN 1 ELSE 0)
        /\ pc = "exited" => exitCode = metricError

\* a run-once process whose only failure was the first of two deletions
C17_Witness ==
    /\ pc = "exited"
    /\ ~ListingFailed
    /\ Len(deleteCalls) >= 2
    /\ ~deleteCalls[1].ok /\ deleteCalls[2].ok
    /\ exitCode = 1


\* ------------------------------------------------- the status of the pods
\* strings.Contains(pod.Status.Reason, "Evicted")
IsEvicted(pod) == \E i \in DOMAIN pod.reason : pod.reason[i] = "Evicted"

\* C18: an evicted pod whose lifetime annotation parses and that carries the
\* job label is a candidate of every run that evaluated it, also when its
\* current lifetime does not exceed its declared lifetime
C18_EvictedPodIsCandidate ==
    GetJobsReturned =>
        \A i \in DOMAIN evaluated :
            (Judgeable(evaluated[i].pod) /\ IsEvicted(evaluated[i].pod)) =>
                InJobs(evaluated[i].pod)

\* C19: a pod with no start time recorded is not a candidate of any run and
\* is still in the cluster after the run
C19_NoStartTimeNeverReaped ==
    \A pod \in Range(pods0) :
        ~pod.startTime.set => (~InJobs(pod) /\ pod \in Range(pods))


\* ---------------------------------------------------- retries by later runs
\* the pods, services, config-maps and secrets of the universe, by identity
ResourceIds ==
    { [kind |-> "pod", namespace |-> p.namespace, name |-> p.name] :
          p \in Range(PodUniverse) }
    \cup { [kind |-> o.kind, namespace |-> o.namespace, name |-> o.name] :
          o \in Range(ObjectUniverse) }

\* the resource is in the cluster
Present(r) ==
    IF r.kind = "pod"
    THEN Exists(pods, r.namespace, r.name)
    ELSE Exists(OfKind(r.kind), r.namespace, r.name)

\* a deletion of the resource failed in the current run and it is still there
FailedPending(r) ==
    /\ Present(r)
    /\ \E i \in DOMAIN deleteCalls :
          /\ ~deleteCalls[i].ok
          /\ deleteCalls[i].kind = r.kind
          /\ deleteCalls[i].namespace = r.namespace
          /\ deleteCalls[i].name = r.name

\* C20: in loop mode, if from some point on no list or delete call fails,
\* every resource whose deletion failed is eventually gone from the cluster
C20_FailedDeletionsEventuallyDone ==
    (<>[](~ListingFailed /\ ~DeletionFailed)) =>
        \A r \in ResourceIds : FailedPending(r) ~> ~Present(r)

\* ------------------------------------------------------ the cap of getJobs
\* C21: within a run, once the candidates collected have reached a non-zero
\* reap-max, no further pod is evaluated and no further pod list call is
\* issued
C21_Step ==
    (cfg.reapMax # 0 /\ Len(jobs) >= cfg.reapMax /\ pc # "run") =>
        (evaluated' = evaluated /\ podListCalls' = podListCalls)

C21_StopsAtCap == [][C21_Step]_vars

\* ------------------------------------------------- the order of the listing
\* the selectors of --pods-labels
PodSelectors == Split(cfg.podsLabels, ",")

\* the (namespace, selector) pair of the k-th pod list call, the namespaces
\* being the outer loop
PairAt(k) ==
    [namespace |-> namespaces[((k - 1) \div Len(PodSelectors)) + 1],
     selector  |-> PodSelectors[((k - 1) % Len(PodSelectors)) + 1]]

\* the pods of the listings of the calls, call after call, as stored when the
\* run started
RECURSIVE ListedPods(_)
ListedPods(calls) ==
    IF calls = <<>> THEN <<>>
    ELSE ListItems(pods0, Head(calls).namespace, Head(calls).selector)
         \o ListedPods(Tail(calls))

\* C22: when getJobs returns without error it has issued one pod list call
\* per (namespace, selector) pair, namespaces outermost; it evaluated the
\* listed pods in call order then listing order, so every pod of a resolved
\* namespace that matches one selector was evaluated; and the candidates are
\* the qualifying evaluations in that order
C22_OneCallPerPairInOrder ==
    GetJobsReturned =>
        /\ Len(podListCalls) = Len(namespaces) * Len(PodSelectors)
        /\ \A k \in DOMAIN podListCalls :
              /\ podListCalls[k].namespace = PairAt(k).namespace
              /\ podListCalls[k].selector = PairAt(k).selector
        /\ [i \in DOMAIN evaluated |-> evaluated[i].pod] = ListedPods(podListCalls)
        /\ \A pod \in Range(pods0) :
              (\E n \in DOMAIN namespaces, l \in DOMAIN PodSelectors :
                  /\ InNamespace(namespaces[n], pod)
                  /\ SelectorMatches(PodSelectors[l], pod.labels))
              => \E i \in DOMAIN evaluated : evaluated[i].pod = pod
        /\ jobs = QualifiedJobs(evaluated)

\* a run over namespaces b then a with selectors app=y then app=x that found
\* the pod of b before the pods of a
C22_Witness ==
    /\ GetJobsReturned
    /\ namespaces = <<NsB, NsA>>
    /\ Len(PodSelectors) = 2
    /\ Len(podListCalls) = 4
    /\ Len(jobs) = 3
    /\ jobs[1].podName = "p7" /\ jobs[2].podName = "p1" /\ jobs[3].podName = "p8"

\* C27: within one run no resource receives more than one delete call
C27_NoResourceDeletedTwice ==
    \A i, j \in DOMAIN deleteCalls :
        (/\ deleteCalls[i].kind = deleteCalls[j].kind
         /\ deleteCalls[i].namespace = deleteCalls[j].namespace
         /\ deleteCalls[i].name = deleteCalls[j].name) => i = j

\* ------------------------------------------------------------ the job label
\* C23: a pod without the job label is never a candidate, and the jobID of
\* every candidate is the value of the job label of its own pod
C23_JobLabelRequired ==
    /\ \A pod \in Range(pods0) : cfg.jobLabel \notin DOMAIN pod.labels => ~InJobs(pod)
    /\ \A i \in DOMAIN jobs :
          \E pod \in Range(pods0) :
              /\ pod.name = jobs[i].podName
              /\ pod.namespace = jobs[i].namespace
              /\ cfg.jobLabel \in DOMAIN pod.labels
              /\ jobs[i].jobID = pod.labels[cfg.jobLabel]

\* getJobs returned a candidate after it evaluated a pod past its lifetime
\* that has a valid annotation and no job label
C23_Witness ==
    /\ GetJobsReturned
    /\ jobs # <<>>
    /\ \E i \in DOMAIN evaluated :
          /\ Parseable(evaluated[i].pod)
          /\ cfg.jobLabel \notin DOMAIN evaluated[i].pod.labels
          /\ PastLifetime(evaluated[i])

\* ------------------------------------------------------ the counts of reap
\* the number of delete calls of a kind with a given outcome
RECURSIVE CountCalls(_, _, _)
CountCalls(calls, kinds, ok) ==
    IF calls = <<>> THEN 0
    ELSE (IF Head(calls).kind \in kinds /\ Head(calls).ok = ok THEN 1 ELSE 0)
         + CountCalls(Tail(calls), kinds, ok)

\* C24: the delete calls of reap are, in order, one per resource of its
\* input list; the deleted counter of a kind is the number of successful
\* calls for that kind and the error count the number of failed calls; when
\* reap has returned, every resource has had its call, so the deleted
\* counters and the error count add up to the length of the list
C24_ReapAccounting ==
    /\ Len(deleteCalls) <= Len(jobObjects)
    /\ \A i \in DOMAIN deleteCalls :
          /\ deleteCalls[i].kind = jobObjects[i].objectType
          /\ deleteCalls[i].namespace = jobObjects[i].namespace
          /\ deleteCalls[i].name = jobObjects[i].name
    /\ \A k \in Kinds : deleted[k] = CountCalls(deleteCalls, {k}, TRUE)
    /\ errCount = CountCalls(deleteCalls, Kinds, FALSE)
    /\ (RunEnded /\ ~ListingFailed) =>
          /\ Len(deleteCalls) = Len(jobObjects)
          /\ deleted["pod"] + deleted["service"] + deleted["configmap"]
             + deleted["secret"] + errCount = Len(jobObjects)

\* reap has returned after it deleted a pod and a service and failed on
\* another resource
C24_Witness ==
    /\ RunEnded /\ ~ListingFailed
    /\ deleted["pod"] >= 1 /\ deleted["service"] >= 1
    /\ errCount >= 1
    /\ Len(jobObjects) >= 4

\* --------------------------------------------------- the duration of a run
\* C25: once a run has ended, the duration reported is the time that passed
\* between the start of that run and its end
C25_DurationIsElapsedTime ==
    pc \in {"sleep", "exited"} => metricDuration = now - start

\* ---------------------------------------------------- the metrics listener
\* run has been entered and has not yet returned to main
InFlight == pc \in {"nsList", "podList", "evalPod", "lookup", "reap"}

\* C26 as stated: an in-flight run goes on until it returns to main, by
\* completing or by aborting at a listing failure
C26_RunContinues ==
    InFlight => (InFlight' \/ pc' = "runReturn")

C26_ListenerNeverEndsRun == [][C26_RunContinues]_vars

\* an in-flight run goes on until it returns to main, unless the process
\* exits with code 1 and without any other effect
C26_RunContinuesOrExits ==
    InFlight =>
        \/ InFlight'
        \/ pc' = "runReturn"
        \/ /\ pc' = "exited"
           /\ exitCode' = 1
           /\ UNCHANGED <<cluster, metrics, history, runs, err>>

\* C26 amended: the listener never blocks or changes the reaping loop while
\* it serves, but its failure to bind or serve ends the process with exit
\* code 1, in the middle of a run too
C26_ListenerFailureExits == [][C26_RunContinuesOrExits]_vars

\* a process in loop mode that exited with code 1 in the middle of reap
C26_Witness ==
    /\ ~cfg.runOnce
    /\ pc = "exited" /\ exitCode = 1
    /\ deleteCalls # <<>>
    /\ Len(deleteCalls) < Len(jobObjects)

\* ------------------------------------------------ the cumulative error count
\* C28: a run that ends with an error has incremented errors_total; stated
\* of the first run of the process, which starts with the counter at 0
C28_ErroredRunCountsAnError ==
    (runs = 0 /\ pc = "runReturn" /\ err # "nil") => metricErrorsTotal >= 1

\* ------------------------------------------------ what a run leaves alone
\* a candidate of the current run has the namespace and the job of object o
OfCandidateJob(o) ==
    \E i \in DOMAIN jobs :
        /\ o.namespace = jobs[i].namespace
        /\ cfg.jobLabel \in DOMAIN o.labels
        /\ o.labels[cfg.jobLabel] = jobs[i].jobID

\* no namespace changes; no pod or object appears or changes; a pod that
\* disappears is a candidate of the run; a service, config-map or secret that
\* disappears carries the job label of a candidate of its namespace
C29_Step ==
    /\ nsStore' = nsStore
    /\ Range(pods') \subseteq Range(pods)
    /\ Range(objs') \subseteq Range(objs)
    /\ \A p \in Range(pods) \ Range(pods') : InJobs(p)
    /\ \A o \in Range(objs) \ Range(objs') : OfCandidateJob(o)

\* C29: across any sequence of runs, the reaper removes only candidate pods
\* and the labelled services, config-maps and secrets of their jobs, and
\* creates or modifies nothing
C29_OnlyJobObjectsRemoved == [][C29_Step]_vars

\* a run over namespace a only has removed the pod and the service of job 1
\* there, and the secret of job 1 in namespace b is still in the cluster
C29_Witness ==
    /\ pc = "runReturn"
    /\ namespaces = <<NsA>>
    /\ deleted["pod"] = 1 /\ deleted["service"] = 1
    /\ \E o \in Range(objs) : o.kind = "secret" /\ o.namespace = NsB /\ OfCandidateJob([o EXCEPT !.namespace = NsA])
    /\ Len(objs) = Len(ObjectUniverse) - 1

\* -------------------------------------------- pods recreated under a run
\* C30: a delete call of reap removes from the cluster only a pod that the
\* run evaluated as a candidate
C30_Step ==
    Len(deleteCalls') > Len(deleteCalls) =>
        \A p \in Range(pods) \ Range(pods') :
            \E i \in DOMAIN evaluated :
                evaluated[i].pod = p /\ evaluated[i].verdict = "candidate"

C30_DeletesOnlyEvaluatedPod == [][C30_Step]_vars

====
